---- MODULE Spec2Model ----
(***************************************************************************)
(* Model of src-tauri/src/lib.rs: the application bootstrap (`run`) and    *)
(* the system-tray event router (the closure given to                      *)
(* on_system_tray_event).                                                  *)
(*                                                                         *)
(* The process is modelled from the moment `run` is entered.  The builder  *)
(* chain is executed one call at a time, the blocking run loop is started, *)
(* and while it runs the host runtime delivers tray events to the router,  *)
(* one at a time.  The window named "main" belongs to the host runtime and *)
(* to the user: it may exist or not, and be moved, hidden or unfocused     *)
(* between events.  Each window call made by the router returns a Result   *)
(* that the code discards; both outcomes are modelled.                     *)
(***************************************************************************)
EXTENDS Naturals, Sequences, FiniteSets

VARIABLES
    phase,       \* "boot" | "running" | "exited" | "panicked"
    steps,       \* builder-chain calls performed so far by this process, in order
    trayMenu,    \* ids of the items of the tray menu, in order
    router,      \* TRUE once the tray event closure is registered
    plugins,     \* plugins registered so far, in order
    migrations,  \* migration descriptors handed to the SQL plugin
    exit,        \* <<>> while the process lives, <<code>> once it has ended
    win,         \* the window labelled "main"
    last,        \* the tray event handled last by this process, with what the router did
    hist,        \* what happened in the events handled before `last`
    runtime,     \* host runtime: "not_started" | "started" | "failed"
    dbAtStart,   \* what the database file recorded when this process started
    dbLog,       \* versions applied to the database file, in order (survives restarts)
    starts       \* number of process starts so far

vars == <<phase, steps, trayMenu, router, plugins, migrations, exit, win,
          last, hist, runtime, dbAtStart, dbLog, starts>>

\* Number of times the process is started against the same database file.
MaxStarts == 2

------------------------------------------------------------------------------
(* Program constants *)

\* app.exit(0)
ExitOk == 0

\* exit status of a Rust process whose main thread panics (the .expect on run)
PanicExitCode == 101

\* Migration { version: 1, .. }
MigrationVersion == 1

MainLabel == "main"

DbUrl == "sqlite:clipboard.db"

WindowCalls == {"center", "show", "set_focus"}

------------------------------------------------------------------------------
(* The window *)

NoWindow == [exists |-> FALSE, centered |-> FALSE, visible |-> FALSE, focused |-> FALSE]

WindowStates ==
    {NoWindow} \cup
    [exists : {TRUE}, centered : BOOLEAN, visible : BOOLEAN, focused : BOOLEAN]

\* Tray events the host runtime can deliver.  `id` is "" for events that carry none.
Event(kind, id) == [kind |-> kind, id |-> id]

TrayEvents ==
    { Event("LeftClick", ""), Event("RightClick", ""), Event("DoubleClick", ""),
      Event("MenuItemClick", "quit"), Event("MenuItemClick", "show"),
      Event("MenuItemClick", "other") }

NoEvent == Event("None", "")

IsShowEvent(e) ==
    e.kind = "LeftClick" \/ (e.kind = "MenuItemClick" /\ e.id = "show")

IsQuitEvent(e) ==
    e.kind = "MenuItemClick" /\ e.id = "quit"

IsOtherEvent(e) ==
    e.kind # "None" /\ ~IsShowEvent(e) /\ ~IsQuitEvent(e)

\* Outcome of handling one event: the window afterwards, the runtime calls made
\* (in order), the window calls that returned Err, and the exit request.
Outcome(w, calls, failed, code) ==
    [win |-> w, calls |-> calls, failed |-> failed, exit |-> code]

------------------------------------------------------------------------------
(* The tray event router: the closure given to on_system_tray_event *)

\* Variant: the closure keeps the handle its previous lookup returned.
get_window_cached(label) ==
    IF IsShowEvent(last.event)
    THEN (IF last.existed THEN <<last.post>> ELSE <<>>)
    ELSE (IF label = MainLabel /\ win.exists THEN <<win>> ELSE <<>>)

\* app.get_window(label): Some(window) as <<window>>, None as <<>>.  The lookup
\* reads the runtime's current window table; no handle is kept by the closure.
get_window(label) ==
    IF label = MainLabel /\ win.exists THEN <<win>> ELSE <<>>

\* What a window call does to the window when it returns Ok.
Effect(name, w) ==
    CASE name = "center"    -> [w EXCEPT !.centered = TRUE]
      [] name = "show"      -> [w EXCEPT !.visible = TRUE]
      [] name = "set_focus" -> [w EXCEPT !.focused = TRUE]

\* Variant: `window.<name>().unwrap();` - an Err panics inside the closure.
CallUnwrap(name, acc, ok) ==
    Outcome(IF ok THEN Effect(name, acc.win) ELSE acc.win,
            Append(acc.calls, name),
            IF ok THEN acc.failed ELSE acc.failed \cup {name},
            IF ok THEN acc.exit ELSE <<PanicExitCode>>)

\* `let _ = window.<name>();` : the call is made once; on Ok its effect is
\* applied, on Err nothing is applied and the error value is dropped.
Call(name, acc, ok) ==
    Outcome(IF ok THEN Effect(name, acc.win) ELSE acc.win,
            Append(acc.calls, name),
            IF ok THEN acc.failed ELSE acc.failed \cup {name},
            acc.exit)

\* Variant: the three calls chained with `?` - the first Err ends the arm.
LeftClickArmTry(res) ==
    LET found == get_window("main")
        a0 == Outcome(win, <<"get_window">>, {}, <<>>)
    IN  IF found # <<>>
        THEN LET a1 == Call("center", [a0 EXCEPT !.win = found[1]], res["center"])
                 a2 == IF a1.failed # {} THEN a1 ELSE Call("show", a1, res["show"])
                 a3 == IF a2.failed # {} THEN a2 ELSE Call("set_focus", a2, res["set_focus"])
             IN  a3
        ELSE a0

\* SystemTrayEvent::LeftClick { .. } => { if let Some(window) = ... }
LeftClickArm(res) ==
    LET found == get_window("main")
        a0 == Outcome(win, <<"get_window">>, {}, <<>>)
    IN  IF found # <<>>
        THEN LET a1 == Call("center", [a0 EXCEPT !.win = found[1]], res["center"])
                 a2 == Call("show", a1, res["show"])
                 a3 == Call("set_focus", a2, res["set_focus"])
             IN  a3
        ELSE a0

\* Variant: app.exit(1).
QuitArmExitOne ==
    Outcome(win, <<"exit">>, {}, <<1>>)

\* "quit" => { app.exit(0); }
QuitArm ==
    Outcome(win, <<"exit">>, {}, <<ExitOk>>)

\* Variant: the "show" arm without the center call.
ShowArmNoCenter(res) ==
    LET found == get_window("main")
        a0 == Outcome(win, <<"get_window">>, {}, <<>>)
    IN  IF found # <<>>
        THEN LET a2 == Call("show", [a0 EXCEPT !.win = found[1]], res["show"])
                 a3 == Call("set_focus", a2, res["set_focus"])
             IN  a3
        ELSE a0

\* "show" => { if let Some(window) = ... }
ShowArm(res) ==
    LET found == get_window("main")
        a0 == Outcome(win, <<"get_window">>, {}, <<>>)
    IN  IF found # <<>>
        THEN LET a1 == Call("center", [a0 EXCEPT !.win = found[1]], res["center"])
                 a2 == Call("show", a1, res["show"])
                 a3 == Call("set_focus", a2, res["set_focus"])
             IN  a3
        ELSE a0

\* Variant: the catch-all arm ends the process.
NoOpArmExits ==
    Outcome(win, <<"exit">>, {}, <<ExitOk>>)

\* _ => {}
NoOpArm ==
    Outcome(win, <<>>, {}, <<>>)

\* Variant: an unknown menu id falls into the "show" arm.
TrayRouterDefaultShow(event, res) ==
    CASE event.kind = "LeftClick" -> LeftClickArm(res)
      [] event.kind = "MenuItemClick" ->
            ( CASE event.id = "quit" -> QuitArm
                [] OTHER -> ShowArm(res) )
      [] OTHER -> NoOpArm

\* match event { .. } with the nested match id.as_str() { .. }
TrayRouter(event, res) ==
    CASE event.kind = "LeftClick" -> LeftClickArm(res)
      [] event.kind = "MenuItemClick" ->
            ( CASE event.id = "quit" -> QuitArm
                [] event.id = "show" -> ShowArm(res)
                [] OTHER -> NoOpArm )
      [] OTHER -> NoOpArm

NoLast ==
    [event |-> NoEvent, existed |-> FALSE, pre |-> NoWindow, post |-> NoWindow,
     calls |-> <<>>, failed |-> {}]

NoHist ==
    [failed |-> FALSE, absent |-> FALSE, found |-> FALSE, other |-> FALSE]

\* The host runtime delivers one tray event and the closure runs to completion.
HandleTrayEvent(event, res) ==
    /\ phase = "running"
    /\ router
    /\ LET r == TrayRouter(event, res)
       IN  /\ win' = r.win
           /\ exit' = r.exit
           /\ phase' = IF r.exit # <<>> THEN "exited" ELSE "running"
           /\ last' = [event |-> event, existed |-> win.exists, pre |-> win,
                       post |-> r.win, calls |-> r.calls, failed |-> r.failed]
    /\ hist' = [failed |-> hist.failed \/ last.failed # {},
                absent |-> hist.absent \/ (IsShowEvent(last.event) /\ ~last.existed),
                found  |-> hist.found \/ (IsShowEvent(last.event) /\ last.existed),
                other  |-> hist.other \/ IsOtherEvent(last.event)]
    /\ UNCHANGED <<steps, trayMenu, router, plugins, migrations, runtime, dbAtStart, dbLog, starts>>

TrayEvent ==
    \E event \in TrayEvents, res \in [WindowCalls -> BOOLEAN] :
        HandleTrayEvent(event, res)

------------------------------------------------------------------------------
(* The window between events: owned by the host runtime and the user *)

\* The host runtime creates the window labelled "main".
WindowCreated ==
    /\ phase = "running"
    /\ ~win.exists
    /\ \E w \in WindowStates : w.exists /\ win' = w
    /\ UNCHANGED <<phase, steps, trayMenu, router, plugins, migrations, exit,
                   last, hist, runtime, dbAtStart, dbLog, starts>>

\* The window is closed and its handle dropped.
WindowClosed ==
    /\ phase = "running"
    /\ win.exists
    /\ win' = NoWindow
    /\ UNCHANGED <<phase, steps, trayMenu, router, plugins, migrations, exit,
                   last, hist, runtime, dbAtStart, dbLog, starts>>

\* The user moves, hides/minimizes or unfocuses the window.
WindowDisturbed ==
    /\ phase = "running"
    /\ win.exists
    /\ \E w \in WindowStates : w.exists /\ w # win /\ win' = w
    /\ UNCHANGED <<phase, steps, trayMenu, router, plugins, migrations, exit,
                   last, hist, runtime, dbAtStart, dbLog, starts>>

------------------------------------------------------------------------------
(* Bootstrap: the body of `run` *)

\* Variant: the SQL plugin registered after the clipboard plugin.
BuilderChainSwapped ==
    << "system_tray", "on_system_tray_event", "plugin_clipboard_manager",
       "plugin_sql", "plugin_global_shortcut", "plugin_opener", "run" >>

\* The builder chain of `run`, call by call, in source order.
BuilderChain ==
    << "system_tray", "on_system_tray_event", "plugin_sql",
       "plugin_clipboard_manager", "plugin_global_shortcut", "plugin_opener",
       "run" >>

\* The chain has reached the call named `step`.
At(step) ==
    /\ phase = "boot"
    /\ Len(steps) < Len(BuilderChain)
    /\ BuilderChain[Len(steps) + 1] = step

\* SystemTrayMenu::new().add_item(show).add_item(quit)
TrayMenuItems == <<"show", "quit">>

\* Variant: a second descriptor, version 2, in the vec.
MigrationListTwo ==
    << [version |-> MigrationVersion, kind |-> "Up"],
       [version |-> MigrationVersion + 1, kind |-> "Up"] >>

\* vec![tauri_plugin_sql::Migration { version: 1, .., kind: MigrationKind::Up }]
MigrationList ==
    << [version |-> MigrationVersion, kind |-> "Up"] >>

\* Builder::add_migrations(db_url, migrations): the descriptors, keyed by database.
add_migrations(db, list) ==
    [i \in 1..Len(list) |-> [db |-> db, version |-> list[i].version, kind |-> list[i].kind]]

\* .system_tray(SystemTray::new().with_menu(tray_menu))
SystemTray ==
    /\ At("system_tray")
    /\ steps' = Append(steps, "system_tray")
    /\ trayMenu' = TrayMenuItems
    /\ UNCHANGED <<phase, router, plugins, migrations, exit, win, last, hist,
                   runtime, dbAtStart, dbLog, starts>>

\* .on_system_tray_event(|app, event| ..)
OnSystemTrayEvent ==
    /\ At("on_system_tray_event")
    /\ steps' = Append(steps, "on_system_tray_event")
    /\ router' = TRUE
    /\ UNCHANGED <<phase, trayMenu, plugins, migrations, exit, win, last, hist,
                   runtime, dbAtStart, dbLog, starts>>

\* .plugin(tauri_plugin_sql::Builder::default().add_migrations(..).build())
PluginSql ==
    /\ At("plugin_sql")
    /\ steps' = Append(steps, "plugin_sql")
    /\ plugins' = Append(plugins, "sql")
    /\ migrations' = migrations \o add_migrations(DbUrl, MigrationList)
    /\ UNCHANGED <<phase, trayMenu, router, exit, win, last, hist, runtime,
                   dbAtStart, dbLog, starts>>

\* .plugin(tauri_plugin_clipboard_manager::init())
PluginClipboardManager ==
    /\ At("plugin_clipboard_manager")
    /\ steps' = Append(steps, "plugin_clipboard_manager")
    /\ plugins' = Append(plugins, "clipboard_manager")
    /\ UNCHANGED <<phase, trayMenu, router, migrations, exit, win, last, hist,
                   runtime, dbAtStart, dbLog, starts>>

\* .plugin(tauri_plugin_global_shortcut::Builder::new().build())
PluginGlobalShortcut ==
    /\ At("plugin_global_shortcut")
    /\ steps' = Append(steps, "plugin_global_shortcut")
    /\ plugins' = Append(plugins, "global_shortcut")
    /\ UNCHANGED <<phase, trayMenu, router, migrations, exit, win, last, hist,
                   runtime, dbAtStart, dbLog, starts>>

\* .plugin(tauri_plugin_opener::init())
PluginOpener ==
    /\ At("plugin_opener")
    /\ steps' = Append(steps, "plugin_opener")
    /\ plugins' = Append(plugins, "opener")
    /\ UNCHANGED <<phase, trayMenu, router, migrations, exit, win, last, hist,
                   runtime, dbAtStart, dbLog, starts>>

\* Variant: the Result of .run(..) dropped - `run` returns and main ends normally.
expectIgnored(ok) ==
    IF ok THEN [phase |-> "running", exit |-> <<>>]
          ELSE [phase |-> "exited", exit |-> <<ExitOk>>]

\* .expect("error while running tauri application") on the Result of .run(..):
\* Ok keeps the process inside the run loop, Err panics.
expect(ok) ==
    IF ok THEN [phase |-> "running", exit |-> <<>>]
          ELSE [phase |-> "panicked", exit |-> <<PanicExitCode>>]

\* The persistence plugin's migrator: the registered migrations, in order, each
\* applied unless the database already records its version.
RECURSIVE ApplyMigrations(_, _)
ApplyMigrations(log, migs) ==
    IF migs = <<>> THEN log
    ELSE LET m == Head(migs)
         IN  IF \E i \in 1..Len(log) : log[i] = m.version
             THEN ApplyMigrations(log, Tail(migs))
             ELSE ApplyMigrations(Append(log, m.version), Tail(migs))

\* .run(tauri::generate_context!()).expect(..): the host runtime either starts,
\* sets the plugins up and blocks in its run loop, or fails to start.
Run(ok) ==
    /\ At("run")
    /\ steps' = Append(steps, "run")
    /\ runtime' = IF ok THEN "started" ELSE "failed"
    /\ phase' = expect(ok).phase
    /\ exit' = expect(ok).exit
    /\ dbLog' = IF ok THEN ApplyMigrations(dbLog, migrations) ELSE dbLog
    /\ UNCHANGED <<trayMenu, router, plugins, migrations, win, last, hist,
                   dbAtStart, starts>>

RunLoopStart ==
    \E ok \in BOOLEAN : Run(ok)

\* The process has ended and is started again against the same database file.
Restart ==
    /\ phase \in {"exited", "panicked"}
    /\ starts < MaxStarts
    /\ starts' = starts + 1
    /\ phase' = "boot"
    /\ steps' = <<>>
    /\ trayMenu' = <<>>
    /\ router' = FALSE
    /\ plugins' = <<>>
    /\ migrations' = <<>>
    /\ exit' = <<>>
    /\ win' = NoWindow
    /\ last' = NoLast
    /\ hist' = NoHist
    /\ runtime' = "not_started"
    /\ dbAtStart' = dbLog
    /\ UNCHANGED dbLog

------------------------------------------------------------------------------

Init ==
    /\ phase = "boot"
    /\ steps = <<>>
    /\ trayMenu = <<>>
    /\ router = FALSE
    /\ plugins = <<>>
    /\ migrations = <<>>
    /\ exit = <<>>
    /\ win = NoWindow
    /\ last = NoLast
    /\ hist = NoHist
    /\ runtime = "not_started"
    /\ dbAtStart = <<>>
    /\ dbLog = <<>>
    /\ starts = 1

Next ==
    \/ SystemTray
    \/ OnSystemTrayEvent
    \/ PluginSql
    \/ PluginClipboardManager
    \/ PluginGlobalShortcut
    \/ PluginOpener
    \/ RunLoopStart
    \/ TrayEvent
    \/ WindowCreated
    \/ WindowClosed
    \/ WindowDisturbed
    \/ Restart

Spec == Init /\ [][Next]_vars

------------------------------------------------------------------------------
(* Properties *)

IsPrefix(s, t) ==
    /\ Len(s) <= Len(t)
    /\ \A i \in 1..Len(s) : s[i] = t[i]

Occurrences(x, s) ==
    Cardinality({i \in 1..Len(s) : s[i] = x})

NoDup(s) ==
    \A i, j \in 1..Len(s) : s[i] = s[j] => i = j

Has(x, s) ==
    \E i \in 1..Len(s) : s[i] = x

\* The calls of a show / left-click that found the window, and of one that did not.
FoundCalls == <<"get_window", "center", "show", "set_focus">>

AbsentCalls == <<"get_window">>

Shown(w) ==
    w.exists /\ w.centered /\ w.visible /\ w.focused

\* The window attribute a window call sets.
Attr(name, w) ==
    CASE name = "center"    -> w.centered
      [] name = "show"      -> w.visible
      [] name = "set_focus" -> w.focused

\* C1: whatever was handled before (show events with the window present or
\* absent, failed window calls, events the router ignores), a handled "quit"
\* menu click ends the process with exit code 0, making the exit call only.
C1_QuitExitsZero ==
    IsQuitEvent(last.event) =>
        /\ phase = "exited"
        /\ exit = <<0>>
        /\ last.calls = <<"exit">>
        /\ last.post = last.pre

\* C1 witness: "quit" handled after a history holding every other kind of event.
C1_Witness ==
    /\ IsQuitEvent(last.event)
    /\ hist.failed /\ hist.absent /\ hist.found /\ hist.other
    /\ phase = "exited"

\* C2 as stated: after a left-click or "show" the window, if it exists, is
\* centered and visible and focused; if it does not exist nothing is done.
C2_AllOrNothing ==
    IsShowEvent(last.event) =>
        IF last.existed
        THEN Shown(last.post)
        ELSE last.calls = AbsentCalls /\ last.post = last.pre

\* C2 amended: a left-click or "show" is all-or-nothing in the calls it makes -
\* with the window present center, show and set_focus are each made once, in
\* that order, with it absent none is made - and each call's effect is there
\* afterwards exactly when the call succeeded or the window already had it; a
\* failed call leaves its effect out while the other two are still applied.
\* With no failed call the window ends centered, visible and focused.
C2_BestEffort ==
    IsShowEvent(last.event) =>
        /\ last.existed =>
              /\ last.calls = FoundCalls
              /\ last.post.exists
              /\ \A c \in WindowCalls :
                    Attr(c, last.post) = (c \notin last.failed \/ Attr(c, last.pre))
              /\ (last.failed = {} => Shown(last.post))
        /\ ~last.existed =>
              /\ last.calls = AbsentCalls
              /\ last.failed = {}
              /\ last.post = last.pre

\* C2 witness: center failed on an off-centre window; show and set_focus were
\* still applied, so the window ends visible and focused but not centered.
C2_Witness ==
    /\ IsShowEvent(last.event)
    /\ last.existed
    /\ last.failed = {"center"}
    /\ ~last.pre.centered /\ ~last.pre.visible /\ ~last.pre.focused
    /\ ~last.post.centered /\ last.post.visible /\ last.post.focused

\* C3: an event that is neither a left-click nor a "show" nor a "quit" menu click
\* makes no call, leaves the window as it was and leaves the process running.
C3_OtherEventsNoOp ==
    IsOtherEvent(last.event) =>
        /\ last.calls = <<>>
        /\ last.failed = {}
        /\ last.post = last.pre
        /\ phase = "running"
        /\ exit = <<>>

\* C3 witness: an unknown menu id handled while the window exists and is hidden.
C3_Witness ==
    /\ last.event = Event("MenuItemClick", "other")
    /\ last.existed
    /\ ~last.pre.visible
    /\ phase = "running"

\* C4: in every state the run loop can be in, and for every outcome of the three
\* window calls, the "show" menu click and the left-click give the same window,
\* the same call sequence, the same discarded failures and the same exit request.
C4_ShowSameAsLeftClick ==
    phase = "running" =>
        \A res \in [WindowCalls -> BOOLEAN] :
            /\ ShowArm(res) = LeftClickArm(res)
            /\ TrayRouter(Event("MenuItemClick", "show"), res)
                 = TrayRouter(Event("LeftClick", ""), res)

\* C4 witness: a "show" menu click handled with the window present, after an
\* earlier show / left-click had found it too.
C4_Witness ==
    /\ last.event = Event("MenuItemClick", "show")
    /\ last.existed
    /\ last.calls = FoundCalls
    /\ hist.found
    /\ phase = "running"

\* C5: a failed window call does not end the process and is not retried (no call
\* appears twice in the event's calls), and after a failure later events are
\* handled as always: a show / left-click that finds the window makes all three
\* calls, and the process ends only by "quit", with code 0.
C5_FailuresDiscarded ==
    /\ last.failed # {} =>
          /\ phase = "running"
          /\ exit = <<>>
          /\ last.calls = FoundCalls
          /\ NoDup(last.calls)
    /\ hist.failed =>
          /\ phase \in {"running", "exited"}
          /\ (phase = "exited" => IsQuitEvent(last.event) /\ exit = <<0>>)
          /\ (IsShowEvent(last.event) /\ last.existed => last.calls = FoundCalls)
          /\ (IsShowEvent(last.event) /\ last.existed /\ last.failed = {}
                => Shown(last.post))

\* C5 witness: after an event with a failed call, a show / left-click with all
\* three calls succeeding leaves the window centered, visible and focused.
C5_Witness ==
    /\ hist.failed
    /\ IsShowEvent(last.event)
    /\ last.existed
    /\ last.failed = {}
    /\ ~Shown(last.pre)
    /\ Shown(last.post)
    /\ phase = "running"

\* C6: once the run loop has started, the process has ended only if the event
\* handled last is a "quit" menu click.
C6_ExitOnlyOnQuit ==
    /\ phase = "exited" => IsQuitEvent(last.event)
    /\ (runtime = "started" /\ exit # <<>>) => IsQuitEvent(last.event)
    /\ (runtime = "started" /\ ~IsQuitEvent(last.event)) => phase = "running"

\* C6 witness: the run loop still running after a failed window call, an ignored
\* event and a show / left-click that found no window.
C6_Witness ==
    /\ phase = "running"
    /\ last.failed # {}
    /\ hist.other /\ hist.absent

\* C7: the bootstrap calls happen once each in the order tray, router, SQL
\* plugin, clipboard plugin, global-shortcut plugin, opener plugin, run; the
\* menu holds "show" then "quit"; the tray and the router are in place when run
\* is called; no tray event is handled before the run loop has started.
C7_BootstrapOrder ==
    /\ IsPrefix(steps, << "system_tray", "on_system_tray_event", "plugin_sql",
                          "plugin_clipboard_manager", "plugin_global_shortcut",
                          "plugin_opener", "run" >>)
    /\ NoDup(steps)
    /\ (Has("system_tray", steps) <=> trayMenu = <<"show", "quit">>)
    /\ (Has("on_system_tray_event", steps) <=> router)
    /\ Has("run", steps) =>
          /\ router
          /\ trayMenu = <<"show", "quit">>
          /\ plugins = <<"sql", "clipboard_manager", "global_shortcut", "opener">>
    /\ (phase # "boot" <=> Has("run", steps))
    /\ last.event # NoEvent => (Has("run", steps) /\ runtime = "started")

\* C7 witness: a tray event handled by a fully bootstrapped process.
C7_Witness ==
    /\ Len(steps) = 7
    /\ last.event = Event("RightClick", "")
    /\ phase = "running"

\* C8: if the host runtime fails to start the process ends at once with a
\* non-zero status: run was called once, the run loop was never entered and no
\* tray event was handled.  If it starts, the process stays inside run until it
\* exits.
C8_StartFailureFatal ==
    /\ runtime = "failed" =>
          /\ phase = "panicked"
          /\ Len(exit) = 1 /\ exit[1] # 0
          /\ Occurrences("run", steps) = 1
          /\ last = NoLast
          /\ win = NoWindow
    /\ phase = "panicked" => runtime = "failed"
    /\ runtime = "started" =>
          /\ phase \in {"running", "exited"}
          /\ (phase = "running" <=> exit = <<>>)

\* C8 witness: the runtime failed to start.
C8_Witness ==
    /\ runtime = "failed"
    /\ phase = "panicked"

\* C9: exactly one migration is registered, for "sqlite:clipboard.db", version 1,
\* kind Up; over all process starts the database records version 1 at most
\* once, and a start reaches the run loop with version 1 applied whether the
\* database was fresh or already migrated.
C9_MigrationOnce ==
    /\ IF Has("plugin_sql", steps)
       THEN migrations = << [db |-> "sqlite:clipboard.db", version |-> 1, kind |-> "Up"] >>
       ELSE migrations = <<>>
    /\ dbLog \in {<<>>, <<1>>}
    /\ IsPrefix(dbAtStart, dbLog)
    /\ runtime = "started" => dbLog = <<1>>

\* C9 witness: a second start against an already-migrated database reached the
\* run loop and the database still records version 1 once.
C9_Witness ==
    /\ starts = 2
    /\ dbAtStart = <<1>>
    /\ runtime = "started"
    /\ phase = "running"
    /\ dbLog = <<1>>

\* C10: what a left-click or "show" does is decided by whether the window exists
\* when that event is handled, not by earlier events: it makes the three window
\* calls exactly when the window exists then, also after earlier events that
\* found none, and is a no-op when it does not exist, also after earlier events
\* that found it.
C10_LookupFresh ==
    IsShowEvent(last.event) =>
        /\ (last.calls = FoundCalls <=> last.existed)
        /\ (last.calls = AbsentCalls <=> ~last.existed)
        /\ (last.existed /\ last.failed = {} => Shown(last.post))
        /\ (~last.existed => last.post = last.pre /\ ~last.post.exists)

\* C10 witness: the window was absent at an earlier show / left-click, exists
\* now, and is centered, shown and focused by this one.
C10_Witness ==
    /\ IsShowEvent(last.event)
    /\ hist.absent /\ ~hist.found
    /\ last.existed
    /\ last.calls = FoundCalls
    /\ last.failed = {}
    /\ ~Shown(last.pre)
    /\ Shown(last.post)

\* The other half of C10: the window was found earlier and is absent now.
C10_GoneNow ==
    /\ IsShowEvent(last.event)
    /\ hist.found /\ ~hist.absent
    /\ ~last.existed
    /\ last.calls = AbsentCalls

====
